---- MODULE Spec2Model ----
\* Model of the logging facade of rs-utils: the Log4rsConfig builder and its
\* initialize() (src/log/log4rs.rs, duplicated in src/log.rs), the LogCat tagged
\* logger (src/log/cat.rs) and the trace!/debug!/info!/warn!/error! macros
\* (src/log.rs).
\*
\* The process-wide state touched by initialize() lives in the `log` crate:
\* the installed logger (log::set_boxed_logger, set at most once by an atomic
\* compare-exchange) and the global maximum level (log::set_max_level, a plain
\* atomic store, initially Off).  log4rs::init_config stores the maximum level
\* of the new logger first and only then tries to install the logger.
EXTENDS Integers, Sequences, FiniteSets, TLC

VARIABLES
    debug_assertions,  \* build mode: TRUE = debug build, FALSE = release build
    log_lineno,        \* cargo feature "log-lineno"
    cfg,               \* the Log4rsConfig builder under construction
    logger,            \* log crate: the installed boxed logger, or NoLogger
    max_level,         \* log crate: MAX_LOG_LEVEL_FILTER
    dirs,              \* file system: existing directories
    files,             \* file system: log file path -> records written to it
    now,               \* wall clock, in seconds
    stderr,            \* lines written to standard error (console appender)
    stdout,            \* lines written to standard output (println!)
    calls,             \* number of API calls made so far
    last,              \* the last API call: operation, inputs, result
    rets,              \* results of the initialize() calls returned so far
    pc,                \* per thread: position inside initialize()
    self,              \* per thread: the Log4rsConfig its initialize() runs on
    local,             \* per thread: locals of initialize() (file appender, config)
    ret,               \* per thread: result of its initialize(), once returned
    conv,              \* an enum generated by enum_extend! and its last conversion
    scope              \* a with! / async_with! expression being evaluated

vars == <<debug_assertions, log_lineno, cfg, logger, max_level, dirs, files,
          now, stderr, stdout, calls, last, rets, pc, self, local, ret, conv,
          scope>>

----------------------------------------------------------------------------
\* Bounds of the model.

MaxCalls == 3        \* API calls per run of the lifecycle specification
MaxClock == 1        \* seconds the clock may advance
MaxSetters == 3      \* setter calls per run of the builder specification
MaxValue == 3        \* largest integer used as a discriminant or converted

----------------------------------------------------------------------------
\* log::LevelFilter / log::Level.  The log crate orders them by verbosity:
\* Off < Error < Warn < Info < Debug < Trace.

Off == 0
Error == 1
Warn == 2
Info == 3
Debug == 4
Trace == 5

Levels == {Error, Warn, Info, Debug, Trace}
LevelFilters == {Off} \cup Levels

\* Option: None, Some(x) and Option::unwrap_or
None == <<>>

Some(x) == <<x>>

unwrap_or(opt, default) == IF opt = None THEN default ELSE opt[1]

----------------------------------------------------------------------------
\* The builder.

Default ==
    [root_level |-> None, console_level |-> None, filename |-> None,
     filepath |-> None, file_level |-> None, pattern |-> None]

set_root_level(c, level) == [c EXCEPT !.root_level = Some(level)]

set_console_level(c, filter) == [c EXCEPT !.console_level = Some(filter)]

\* variant: the file threshold setter writes the console threshold
set_file_level_console(c, filter) == [c EXCEPT !.console_level = Some(filter)]

set_file_level(c, filter) == [c EXCEPT !.file_level = Some(filter)]

set_filename(c, filename) == [c EXCEPT !.filename = Some(filename)]

set_filepath(c, filepath) == [c EXCEPT !.filepath = Some(filepath)]

set_pattern(c, pattern) == [c EXCEPT !.pattern = Some(pattern)]

DefaultPattern == "{d} [{l}] {t}[{L}]: {m}{n}"

DefaultFilepath == "logs"

----------------------------------------------------------------------------
\* The environment: the file system and the clock.

\* Directories that cannot be created (std::fs::create_dir_all returns Err).
Uncreatable == {"bad"}

\* Base names whose log file cannot be opened (FileAppender build returns Err).
Unopenable == {"ro"}

\* variant: a directory that cannot be created is not reported
create_dir_all_unchecked(ds, filepath) ==
    IF filepath \in Uncreatable THEN [ok |-> TRUE, dirs |-> ds]
    ELSE [ok |-> TRUE, dirs |-> ds \cup {filepath}]

\* std::fs::create_dir_all(filepath)
create_dir_all(ds, filepath) ==
    IF filepath \in ds THEN [ok |-> TRUE, dirs |-> ds]
    ELSE IF filepath \in Uncreatable THEN [ok |-> FALSE, dirs |-> ds]
    ELSE [ok |-> TRUE, dirs |-> ds \cup {filepath}]

\* Local::now().format("%Y-%m-%d %H_%M_%S"): the clock at second precision
Timestamp(t) == t

\* variant: the file name carries no timestamp
LogPath_untimed(filepath, filename, t) ==
    <<filepath, "/", filename, ".log">>

\* format!("{}/{}-{}.log", filepath, filename, timestamp)
LogPath(filepath, filename, t) ==
    <<filepath, "/", filename, "-", Timestamp(t), ".log">>

\* the file is opened with create + truncate (append(false))
OpenTruncate(fl, path) ==
    [q \in (DOMAIN fl) \cup {path} |-> IF q = path THEN <<>> ELSE fl[q]]

\* FileAppender::builder().encoder(pattern).append(false).build(path)
FileAppender_build(fl, path, pattern) ==
    IF path[3] \in Unopenable
    THEN [ok |-> FALSE, files |-> fl,
          appender |-> [kind |-> "file", pattern |-> pattern, path |-> None]]
    ELSE [ok |-> TRUE, files |-> OpenTruncate(fl, path),
          appender |-> [kind |-> "file", pattern |-> pattern, path |-> path]]

\* ConsoleAppender::builder().encoder(pattern).target(Target::Stderr).build()
ConsoleAppender_build(pattern) ==
    [kind |-> "console", pattern |-> pattern, path |-> None]

\* Appender::builder().filter(ThresholdFilter::new(level)).build(name, appender)
Appender_build(name, level, appender) ==
    [name |-> name, threshold |-> level, kind |-> appender.kind,
     pattern |-> appender.pattern, path |-> appender.path]

\* the console appender of initialize()
ConsoleOf(c) ==
    Appender_build("console", unwrap_or(c.console_level, Debug),
                   ConsoleAppender_build(unwrap_or(c.pattern, DefaultPattern)))

\* the file appender of initialize(), given the FileAppender that was built
FileOf(c, file) ==
    Appender_build("file", unwrap_or(c.file_level, Debug), file)

\* builder.build(root.build(root_level)): the Config handed to init_config
Config_build(c, appenders) ==
    [root |-> unwrap_or(c.root_level, Trace), appenders |-> appenders]

----------------------------------------------------------------------------
\* The log crate's process-wide state.

\* no logger installed: log::logger() is the no-op logger
NoLogger == None

\* log::set_boxed_logger: installs the logger unless one is installed already
set_boxed_logger(lg, new) ==
    IF lg = NoLogger THEN [ok |-> TRUE, logger |-> Some(new)]
    ELSE [ok |-> FALSE, logger |-> lg]

\* Logger::max_log_level of a configuration with a root logger only
max_log_level(config) == config.root

\* log4rs::init_config(config): log::set_max_level, then log::set_boxed_logger
init_config(lg, ml, config) ==
    LET r == set_boxed_logger(lg, config)
    IN [ok |-> r.ok, logger |-> r.logger, max_level |-> max_log_level(config)]

\* Log4rsConfig::initialize(&self), run without interruption, on the process
\* state (logger lg, maximum level ml) and environment (ds, fl, clock t).
initialize(c, lg, ml, ds, fl, t) ==
    LET pattern == unwrap_or(c.pattern, DefaultPattern)
        console == ConsoleOf(c)
        failed(err, ds2, fl2) ==
            [ret |-> err, logger |-> lg, max_level |-> ml,
             dirs |-> ds2, files |-> fl2]
        install(appenders, ds2, fl2) ==
            LET r == init_config(lg, ml, Config_build(c, appenders))
            IN [ret |-> IF r.ok THEN "Ok" ELSE "Err(SetLoggerError)",
                logger |-> r.logger, max_level |-> r.max_level,
                dirs |-> ds2, files |-> fl2]
    IN IF c.filename = None
       THEN install(<<console>>, ds, fl)
       ELSE LET filepath == unwrap_or(c.filepath, DefaultFilepath)
                d == create_dir_all(ds, filepath)
                f == FileAppender_build(fl, LogPath(filepath, c.filename[1], t),
                                        pattern)
            IN IF ~d.ok THEN failed("Err(io)", ds, fl)
               ELSE IF ~f.ok THEN failed("Err(io)", d.dirs, fl)
               ELSE install(<<console, FileOf(c, f.appender)>>, d.dirs, f.files)

----------------------------------------------------------------------------
\* Production path: the log crate's macros and the log4rs logger.

\* log::log!(level, ...): the record is built and handed to the logger only
\* if the level passes the global maximum level
log_enabled(level, ml) == level <= ml

\* variant: a record at the threshold itself is rejected too
ThresholdFilter_filter_strict(threshold, level) ==
    IF level >= threshold THEN "Reject" ELSE "Neutral"

\* ThresholdFilter::filter: Reject a record more verbose than the threshold
ThresholdFilter_filter(threshold, level) ==
    IF level > threshold THEN "Reject" ELSE "Neutral"

\* the root logger accepts the level (ConfiguredLogger::enabled)
Logger_enabled(config, level) == config.root >= level

\* Appender::append: the appender writes the record unless its filter rejects
Appender_admits(appender, level) ==
    ThresholdFilter_filter(appender.threshold, level) # "Reject"

\* PatternEncoder::encode: the record rendered through the pattern template
Encode(pattern, level, text) ==
    [pattern |-> pattern, level |-> level, message |-> text]

\* the appenders of the installed logger that write a record of this level
Writers(lg, ml, level) ==
    IF lg = NoLogger \/ ~log_enabled(level, ml) THEN {}
    ELSE IF ~Logger_enabled(lg[1], level) THEN {}
    ELSE {a \in {lg[1].appenders[i] : i \in DOMAIN lg[1].appenders} :
            Appender_admits(a, level)}

\* standard error after log::log!(level, text)
LogStderr(lg, ml, err, level, text) ==
    LET ws == {a \in Writers(lg, ml, level) : a.kind = "console"}
    IN IF ws = {} THEN err
       ELSE Append(err, Encode((CHOOSE a \in ws : TRUE).pattern, level, text))

\* the log files after log::log!(level, text)
LogFiles(lg, ml, fl, level, text) ==
    LET ws == {a \in Writers(lg, ml, level) : a.kind = "file"}
    IN [q \in DOMAIN fl |->
          IF \E a \in ws : a.path = q
          THEN Append(fl[q], Encode((CHOOSE a \in ws : a.path = q).pattern,
                                    level, text))
          ELSE fl[q]]

----------------------------------------------------------------------------
\* Local path: colorized lines printed with println!.

Color(level) ==
    CASE level = Trace -> "\\x1b[95m"
      [] level = Debug -> "\\x1b[96m"
      [] level = Info -> "\\x1b[32m"
      [] level = Warn -> "\\x1b[33m"
      [] level = Error -> "\\x1b[31m"

Label(level) ==
    CASE level = Trace -> "[ TRACE]"
      [] level = Debug -> "[ DEBUG]"
      [] level = Info -> "[  INFO]"
      [] level = Warn -> "[  WARN]"
      [] level = Error -> "[ ERROR]"

Reset == "\\x1b[0m"

\* variant: the line carries no tag
LogCatLine_untagged(lineno, level, tag, args, loc) ==
    <<Color(level), Label(level), " - ">> \o args \o <<Reset>>

\* LogCat::<level> in a debug build, without and with feature log-lineno
LogCatLine(lineno, level, tag, args, loc) ==
    IF lineno
    THEN <<Color(level), Label(level), " - ", tag, " - ">> \o args
         \o <<" (", loc.file, ":", loc.line, ")", Reset>>
    ELSE <<Color(level), Label(level), " - ", tag, " - ">> \o args
         \o <<Reset>>

\* variant: the record text carries no tag
LogCatText_untagged(tag, args) == args

\* LogCat::<level> in a release build: log::<level>!("{} - {}", self.tag, args)
LogCatText(tag, args) == <<tag, " - ">> \o args

\* the empty message list of the macros
NoArgs == <<>>

\* trace!/debug!/info!/warn!/error! with arguments, in a debug build
MacroLine(level, args) ==
    <<Color(level), Label(level), " - ">> \o args \o <<Reset>>

\* println!()
BlankLine == <<>>

----------------------------------------------------------------------------
\* Inputs of the calls.

Threads == {"t1", "t2"}

Tags == {"APP"}

\* formatted messages (fmt::Arguments), as the text they render to
Messages == {<<"disk full">>}

\* the call site captured by #[track_caller]
CallSites == {[file |-> "src/main.rs", line |-> "7"]}

CustomPattern == "{l} - {m}{n}"

\* the configuration of the documentation example
DocExample ==
    set_pattern(set_filepath(set_filename(set_file_level(set_console_level(
        set_root_level(Default, Info), Warn), Trace), "myapp"), "logs"),
        CustomPattern)

\* console threshold Warn, file threshold Trace, root left at its default
SplitLevels ==
    set_filename(set_file_level(set_console_level(Default, Warn), Trace),
                 "myapp")

\* console only, root threshold Error
ErrorsOnly == set_root_level(Default, Error)

\* a file directory and file threshold, but no file name
NoFilename == set_file_level(set_filepath(Default, "var"), Trace)

\* a directory that cannot be created
BadDirectory == set_filepath(set_filename(Default, "myapp"), "bad")

\* a log file that cannot be opened
BadFile == set_filename(Default, "ro")

Configs ==
    {Default, DocExample, SplitLevels, ErrorsOnly, NoFilename, BadDirectory,
     BadFile}

NoCall ==
    [op |-> "none", level |-> Off, tag |-> "", args |-> <<>>, cfg |-> Default,
     ret |-> "none"]

----------------------------------------------------------------------------
\* enum_extend!: an enum with explicit discriminants, Into<value type> and
\* TryFrom<value type>.  A declaration is the list of its `variant = value`
\* arms and the error constructor.

macroVars == <<conv, scope>>

VariantNames == <<"T1", "T2", "T3">>

\* the declarations rustc accepts: discriminant values are pairwise distinct
Declarations ==
    {[variants |-> [i \in 1..k |-> [variant |-> VariantNames[i],
                                    value |-> f[i]]],
      err_info |-> "InvalidValue"] :
        f \in {g \in [1..Len(VariantNames) -> 0..MaxValue] :
                 \A i, j \in 1..Len(VariantNames) : i # j => g[i] # g[j]},
        k \in 0..Len(VariantNames)}

\* Result<Self, Self::Error>
EnumOk(variant) == [ok |-> TRUE, variant |-> variant, err |-> "", value |-> 0]

EnumErr(ctor, val) == [ok |-> FALSE, variant |-> "", err |-> ctor, value |-> val]

NoResult == [ok |-> FALSE, variant |-> "", err |-> "", value |-> 0]

\* fn into(self): match self { Self::$variant => $value, ... }
into(e, v) ==
    e.variants[CHOOSE i \in DOMAIN e.variants : e.variants[i].variant = v].value

\* variant: the wildcard arm does not carry the value
try_from_blank(e, val) ==
    LET arms == {i \in DOMAIN e.variants : e.variants[i].value = val}
    IN IF arms = {} THEN EnumErr(e.err_info, 0)
       ELSE EnumOk(e.variants[CHOOSE i \in arms : \A j \in arms : i <= j].variant)

\* fn try_from(val): match val { $value => Ok(Self::$variant), ...,
\* _ => Err(Self::Error::$err_info(val)) }; the first arm that matches wins
try_from(e, val) ==
    LET arms == {i \in DOMAIN e.variants : e.variants[i].value = val}
    IN IF arms = {} THEN EnumErr(e.err_info, val)
       ELSE EnumOk(e.variants[CHOOSE i \in arms : \A j \in arms : i <= j].variant)

NoEnum == [variants |-> <<>>, err_info |-> ""]

NoConv ==
    [enum |-> NoEnum, op |-> "none", variant |-> "", value |-> 0,
     out |-> NoResult]

----------------------------------------------------------------------------
\* with! and async_with!: `$init => |$name| $body` with the hooks
\* __enter__ / __exit__ (__aenter__ / __aexit__).

\* Result values of the enter hook and of the body
Ok(x) == [ok |-> TRUE, value |-> x]

Err(e) == [ok |-> FALSE, value |-> e]

\* what the enter hook returns: Result<(), E>
EnterResults == {Ok("()"), Err("e1"), Err("e2")}

\* how the body block ends: it evaluates to a Result value, or a `?` inside
\* it meets an Err and leaves the block early
BodyOutcomes ==
    {[kind |-> "value", result |-> r] :
        r \in {Ok("v1"), Ok("v2"), Err("e1"), Err("e2")}}
    \cup {[kind |-> "question", result |-> r] : r \in {Err("e1"), Err("e2")}}

NoScope ==
    [macro |-> "none", enter |-> Ok("()"),
     body |-> [kind |-> "value", result |-> Ok("v1")],
     pc |-> "idle", events |-> <<>>, result |-> <<>>]

----------------------------------------------------------------------------
\* The lifecycle specification: one thread of control makes API calls, each
\* running to completion before the next.

threadVars == <<pc, self, local, ret>>

buildVars == <<debug_assertions, log_lineno>>

NoLocal == [file |-> None, config |-> None]

Init ==
    /\ debug_assertions \in BOOLEAN
    /\ log_lineno \in BOOLEAN
    /\ cfg = Default
    /\ logger = NoLogger
    /\ max_level = Off
    /\ dirs = {}
    /\ files = <<>>
    /\ now = 0
    /\ stderr = <<>>
    /\ stdout = <<>>
    /\ calls = 0
    /\ last = NoCall
    /\ rets = <<>>
    /\ pc = [t \in Threads |-> "idle"]
    /\ self = [t \in Threads |-> Default]
    /\ local = [t \in Threads |-> NoLocal]
    /\ ret = [t \in Threads |-> "none"]
    /\ conv = NoConv
    /\ scope = NoScope

\* the clock advances
Tick ==
    /\ now < MaxClock
    /\ now' = now + 1
    /\ UNCHANGED <<macroVars, buildVars, cfg, logger, max_level, dirs, files, stderr,
                   stdout, calls, last, rets, threadVars>>

\* Log4rsConfig::initialize on a builder configured as c, run to completion
Log4rsConfig_initialize(c) ==
    /\ LET r == initialize(c, logger, max_level, dirs, files, now)
       IN /\ logger' = r.logger
          /\ max_level' = r.max_level
          /\ dirs' = r.dirs
          /\ files' = r.files
          /\ last' = [NoCall EXCEPT !.op = "initialize", !.cfg = c,
                                    !.ret = r.ret]
          /\ rets' = Append(rets, r.ret)
    /\ cfg' = c
    /\ calls' = calls + 1
    /\ UNCHANGED <<macroVars, buildVars, now, stderr, stdout, threadVars>>

Initialize(c) ==
    /\ calls < MaxCalls
    /\ Log4rsConfig_initialize(c)

\* log::log!(level, text) in a release build
LogRelease(level, text) ==
    /\ stderr' = LogStderr(logger, max_level, stderr, level, text)
    /\ files' = LogFiles(logger, max_level, files, level, text)
    /\ stdout' = stdout

\* println!(line)
Println(line) ==
    /\ stdout' = Append(stdout, line)
    /\ UNCHANGED <<stderr, files>>

\* the body of LogCat::trace / debug / info / warn / error
LogCat_log(level, tag, args, loc) ==
    /\ IF debug_assertions
       THEN Println(LogCatLine(log_lineno, level, tag, args, loc))
       ELSE LogRelease(level, LogCatText(tag, args))
    /\ last' = [NoCall EXCEPT !.op = "LogCat", !.level = level, !.tag = tag,
                              !.args = args, !.ret = "()"]

\* variant: the macros have no arm for the empty argument list
Macro_log_one_arm(level, args) ==
    /\ IF debug_assertions THEN Println(MacroLine(level, args))
       ELSE LogRelease(level, args)
    /\ last' = [NoCall EXCEPT !.op = "macro", !.level = level, !.args = args,
                              !.ret = "()"]

\* the body of trace! / debug! / info! / warn! / error!
Macro_log(level, args) ==
    /\ IF args = NoArgs THEN Println(BlankLine)
       ELSE IF debug_assertions THEN Println(MacroLine(level, args))
       ELSE LogRelease(level, args)
    /\ last' = [NoCall EXCEPT !.op = "macro", !.level = level, !.args = args,
                              !.ret = "()"]

\* LogCat::trace / debug / info / warn / error
LogCatCall(level, tag, args, loc) ==
    /\ calls < MaxCalls
    /\ LogCat_log(level, tag, args, loc)
    /\ calls' = calls + 1
    /\ UNCHANGED <<macroVars, buildVars, cfg, logger, max_level, dirs, now, rets,
                   threadVars>>

\* trace! / debug! / info! / warn! / error!
MacroCall(level, args) ==
    /\ calls < MaxCalls
    /\ Macro_log(level, args)
    /\ calls' = calls + 1
    /\ UNCHANGED <<macroVars, buildVars, cfg, logger, max_level, dirs, now, rets,
                   threadVars>>

Next ==
    \/ Tick
    \/ \E c \in Configs : Initialize(c)
    \/ \E level \in Levels, tag \in Tags, args \in Messages, loc \in CallSites :
         LogCatCall(level, tag, args, loc)
    \/ \E level \in Levels, args \in Messages \cup {NoArgs} :
         MacroCall(level, args)

Spec == Init /\ [][Next]_vars

----------------------------------------------------------------------------
\* The builder specification: a builder is configured by chained setters,
\* initialize() is called on it once, and one record is logged.

Filenames == {"myapp", "ro"}

Filepaths == {"logs", "var", "bad"}

Patterns == {CustomPattern, "{m}{n}"}

\* a setter call on the builder: cfg becomes c
Setter(op, level, text, c) ==
    /\ calls < MaxSetters
    /\ rets = <<>>
    /\ cfg' = c
    /\ calls' = calls + 1
    /\ last' = [NoCall EXCEPT !.op = op, !.level = level, !.args = text,
                              !.cfg = cfg]
    /\ UNCHANGED <<macroVars, buildVars, logger, max_level, dirs, files, now, stderr,
                   stdout, rets, threadVars>>

Set_root_level(level) ==
    Setter("set_root_level", level, <<>>, set_root_level(cfg, level))

Set_console_level(filter) ==
    Setter("set_console_level", filter, <<>>, set_console_level(cfg, filter))

Set_file_level(filter) ==
    Setter("set_file_level", filter, <<>>, set_file_level(cfg, filter))

Set_filename(filename) ==
    Setter("set_filename", Off, <<filename>>, set_filename(cfg, filename))

Set_filepath(filepath) ==
    Setter("set_filepath", Off, <<filepath>>, set_filepath(cfg, filepath))

Set_pattern(pattern) ==
    Setter("set_pattern", Off, <<pattern>>, set_pattern(cfg, pattern))

\* initialize() on the builder as configured so far
BuilderInitialize ==
    /\ rets = <<>>
    /\ Log4rsConfig_initialize(cfg)

\* one LogCat call after initialize() has returned
BuilderLog(level, tag, args, loc) ==
    /\ last.op = "initialize"
    /\ LogCat_log(level, tag, args, loc)
    /\ calls' = calls + 1
    /\ UNCHANGED <<macroVars, buildVars, cfg, logger, max_level, dirs, now, rets,
                   threadVars>>

NextBuilder ==
    \/ \E level \in LevelFilters : Set_root_level(level)
    \/ \E filter \in LevelFilters : Set_console_level(filter)
    \/ \E filter \in LevelFilters : Set_file_level(filter)
    \/ \E filename \in Filenames : Set_filename(filename)
    \/ \E filepath \in Filepaths : Set_filepath(filepath)
    \/ \E pattern \in Patterns : Set_pattern(pattern)
    \/ BuilderInitialize
    \/ \E level \in Levels, tag \in Tags, args \in Messages, loc \in CallSites :
         BuilderLog(level, tag, args, loc)

SpecBuilder == Init /\ [][NextBuilder]_vars

----------------------------------------------------------------------------
\* The thread specification: threads call initialize() concurrently; the
\* calls interleave at their effects on the file system and on the log
\* crate's process-wide state.

ThreadConfigs == {Default, SplitLevels, ErrorsOnly, BadDirectory}

seqVars == <<macroVars, buildVars, cfg, now, stderr, stdout, last>>

\* a thread enters initialize(): without a file name it goes straight to
\* init_config
Enter(t, c) ==
    /\ pc[t] = "idle"
    /\ self' = [self EXCEPT ![t] = c]
    /\ pc' = [pc EXCEPT ![t] = IF c.filename = None THEN "set_max_level"
                                ELSE "create_dir_all"]
    /\ calls' = calls + 1
    /\ UNCHANGED <<seqVars, logger, max_level, dirs, files, rets, local, ret>>

\* return from initialize() with result r
Return(t, r) ==
    /\ ret' = [ret EXCEPT ![t] = r]
    /\ rets' = Append(rets, r)
    /\ pc' = [pc EXCEPT ![t] = "done"]

\* std::fs::create_dir_all(filepath)?
CreateDirAll(t) ==
    /\ pc[t] = "create_dir_all"
    /\ LET d == create_dir_all(dirs, unwrap_or(self[t].filepath,
                                                DefaultFilepath))
       IN /\ dirs' = d.dirs
          /\ IF d.ok
             THEN /\ pc' = [pc EXCEPT ![t] = "FileAppender_build"]
                  /\ UNCHANGED <<ret, rets>>
             ELSE Return(t, "Err(io)")
    /\ UNCHANGED <<seqVars, logger, max_level, files, calls, self, local>>

\* FileAppender::builder()...build(path)?
FileAppenderBuild(t) ==
    /\ pc[t] = "FileAppender_build"
    /\ LET f == FileAppender_build(files,
                    LogPath(unwrap_or(self[t].filepath, DefaultFilepath),
                            self[t].filename[1], now),
                    unwrap_or(self[t].pattern, DefaultPattern))
       IN /\ files' = f.files
          /\ IF f.ok
             THEN /\ local' = [local EXCEPT ![t].file = Some(f.appender)]
                  /\ pc' = [pc EXCEPT ![t] = "set_max_level"]
                  /\ UNCHANGED <<ret, rets>>
             ELSE /\ Return(t, "Err(io)")
                  /\ local' = local
    /\ UNCHANGED <<seqVars, logger, max_level, dirs, calls, self>>

\* the appenders the thread has built
AppendersOf(t) ==
    IF local[t].file = None THEN <<ConsoleOf(self[t])>>
    ELSE <<ConsoleOf(self[t]), FileOf(self[t], local[t].file[1])>>

\* builder.build(...)? and, inside init_config, log::set_max_level
SetMaxLevel(t) ==
    /\ pc[t] = "set_max_level"
    /\ LET config == Config_build(self[t], AppendersOf(t))
       IN /\ max_level' = max_log_level(config)
          /\ local' = [local EXCEPT ![t].config = Some(config)]
    /\ pc' = [pc EXCEPT ![t] = "set_boxed_logger"]
    /\ UNCHANGED <<seqVars, logger, dirs, files, calls, rets, self, ret>>

\* inside init_config, log::set_boxed_logger, and the return of initialize()
SetBoxedLogger(t) ==
    /\ pc[t] = "set_boxed_logger"
    /\ LET r == set_boxed_logger(logger, local[t].config[1])
       IN /\ logger' = r.logger
          /\ Return(t, IF r.ok THEN "Ok" ELSE "Err(SetLoggerError)")
    /\ UNCHANGED <<seqVars, max_level, dirs, files, calls, self, local>>

\* the clock advances while the threads run
ThreadTick ==
    /\ now < MaxClock
    /\ now' = now + 1
    /\ UNCHANGED <<macroVars, buildVars, cfg, logger, max_level, dirs, files, stderr,
                   stdout, calls, last, rets, threadVars>>

NextThreads ==
    \/ \E t \in Threads, c \in ThreadConfigs : Enter(t, c)
    \/ \E t \in Threads : CreateDirAll(t)
    \/ \E t \in Threads : FileAppenderBuild(t)
    \/ \E t \in Threads : SetMaxLevel(t)
    \/ \E t \in Threads : SetBoxedLogger(t)
    \/ ThreadTick

SpecThreads == Init /\ [][NextThreads]_vars

----------------------------------------------------------------------------
\* Properties.

\* a step in which an initialize() call returns
InitStep == Len(rets') = Len(rets) + 1

\* a step that is one complete LogCat call
LogCatStep == calls' = calls + 1 /\ last'.op = "LogCat"

\* a step that is one complete macro call
MacroStep == calls' = calls + 1 /\ last'.op = "macro"

\* the destinations a record of the level would be written to, were it logged
\* in a release build in the current state
Destinations(lg, ml, level) == {a.name : a \in Writers(lg, ml, level)}

\* the elements of a sequence
Range(seq) == {seq[i] : i \in DOMAIN seq}

\* C1: once an initialize() call has returned Ok, every later call returns
\* Err, the installed logger stays the one installed by the first successful
\* call, and a later log call still reaches the destinations it reached before
\* the rejected call.
C1_RejectedInitializeLeavesBackend ==
    [][(InitStep /\ logger # NoLogger) =>
          /\ rets'[Len(rets')] # "Ok"
          /\ logger' = logger
          /\ \A level \in Levels :
               Destinations(logger', max_level', level)
                 = Destinations(logger, max_level, level)]_vars

\* the threads that have returned Ok
Winners == {t \in Threads : ret[t] = "Ok"}

\* the configuration thread t hands to init_config
ConfigOf(t) == Config_build(self[t], AppendersOf(t))

\* C2: when threads call initialize() concurrently, at most one call returns
\* Ok, every other call returns Err, and once all have returned the
\* process-wide backend is exactly the configuration of the call that
\* returned Ok: records reach the destinations that configuration alone
\* prescribes.
C2_ConcurrentInitializeOneBackend ==
    (\A t \in Threads : pc[t] = "done") =>
        /\ Cardinality(Winners) <= 1
        /\ \A t \in Threads \ Winners : ret[t] \in {"Err(io)",
                                                    "Err(SetLoggerError)"}
        /\ \A t \in Winners :
             /\ logger = Some(ConfigOf(t))
             /\ \A level \in Levels :
                  Destinations(logger, max_level, level)
                    = Destinations(Some(ConfigOf(t)),
                                   max_log_level(ConfigOf(t)), level)

\* the file setup of initialize() on configuration c fails in the current
\* file system
FileSetupFails(c) ==
    /\ c.filename # None
    /\ \/ /\ unwrap_or(c.filepath, "logs") \in Uncreatable
          /\ unwrap_or(c.filepath, "logs") \notin dirs
       \/ c.filename[1] \in Unopenable

\* configurations whose file setup cannot fail
ValidConfigs == {Default, SplitLevels, DocExample}

\* C3: if a file base name is configured and creating the directory or
\* opening the file fails, initialize() returns an error and installs
\* nothing: logger and maximum level are as before the call, nothing is
\* written, and if no backend was installed a later initialize() with a valid
\* configuration returns Ok.
C3_FailedFileSetupInstallsNothing ==
    [][(InitStep /\ FileSetupFails(last'.cfg)) =>
          /\ last'.ret = "Err(io)"
          /\ logger' = logger
          /\ max_level' = max_level
          /\ stderr' = stderr /\ stdout' = stdout
          /\ (logger = NoLogger =>
                /\ max_level' = Off
                /\ \A level \in Levels :
                     Destinations(logger', max_level', level) = {}
                /\ \A c \in ValidConfigs :
                     initialize(c, logger', max_level', dirs', files',
                                now').ret = "Ok")]_vars

\* a failed file setup was followed by a successful initialize()
C3_Witness == rets = <<"Err(io)", "Ok">> /\ logger # NoLogger

\* the appender of the installed configuration with the given name
AppenderNamed(config, name) ==
    CHOOSE a \in Range(config.appenders) : a.name = name

HasAppender(config, name) == \E a \in Range(config.appenders) : a.name = name

\* C4: after a successful initialize() with console threshold Warn and file
\* threshold Trace and a file name (and a root threshold that admits Info), an
\* Info call in a release build is written to the file and not to the console.
C4_InfoToFileNotConsole ==
    [][(/\ LogCatStep /\ ~debug_assertions /\ last'.level = Info
        /\ logger # NoLogger
        /\ logger[1].root \in {Info, Debug, Trace}
        /\ HasAppender(logger[1], "file")
        /\ AppenderNamed(logger[1], "console").threshold = Warn
        /\ AppenderNamed(logger[1], "file").threshold = Trace) =>
          LET path == AppenderNamed(logger[1], "file").path
          IN /\ stderr' = stderr
             /\ Len(files'[path]) = Len(files[path]) + 1
             /\ files'[path][Len(files'[path])].level = Info]_vars

\* C6: a successful initialize() installs a console appender always and a file
\* appender exactly if a file name was set; without a file name it creates no
\* directory and no file; with a file name it creates exactly one file, named
\* {directory}/{base name}-{timestamp}.log, which the file appender writes.
C6_AppendersAndLogFile ==
    [][InitStep =>
          LET c == last'.cfg
              path == <<unwrap_or(c.filepath, "logs"), "/", c.filename[1],
                        "-", now, ".log">>
          IN /\ (c.filename = None => dirs' = dirs /\ files' = files)
             /\ (last'.ret = "Ok" =>
                   /\ logger' # NoLogger
                   /\ HasAppender(logger'[1], "console")
                   /\ AppenderNamed(logger'[1], "console").kind = "console"
                   /\ HasAppender(logger'[1], "file") <=> c.filename # None
                   /\ Len(logger'[1].appenders)
                        = IF c.filename = None THEN 1 ELSE 2
                   /\ (c.filename # None =>
                         /\ AppenderNamed(logger'[1], "file").kind = "file"
                         /\ AppenderNamed(logger'[1], "file").path = path
                         /\ (DOMAIN files') \ (DOMAIN files) = {path}
                         /\ files'[path] = <<>>
                         /\ unwrap_or(c.filepath, "logs") \in dirs'))]_vars

\* initialize() succeeded on a configuration with a file name, in directory
\* "logs", and the one log file exists
C6_Witness ==
    /\ last.op = "initialize" /\ last.ret = "Ok"
    /\ last.cfg.filename = Some("myapp")
    /\ DOMAIN files = {<<"logs", "/", "myapp", "-", now, ".log">>}

\* C8: in a debug build every LogCat call prints exactly one colorized line
\* with the tag and the message, whatever the backend state, and leaves the
\* backend and its destinations untouched.
C8_LocalModeAlwaysPrints ==
    [][(LogCatStep /\ debug_assertions) =>
          LET line == stdout'[Len(stdout')]
          IN /\ Len(stdout') = Len(stdout) + 1
             /\ SubSeq(stdout', 1, Len(stdout)) = stdout
             /\ Len(line) >= 6 + Len(last'.args)
             /\ line[1] = Color(last'.level)
             /\ line[2] = Label(last'.level)
             /\ line[Len(line)] = Reset
             /\ SubSeq(line, 3, 5 + Len(last'.args))
                  = <<" - ", last'.tag, " - ">> \o last'.args
             /\ logger' = logger /\ max_level' = max_level
             /\ stderr' = stderr /\ files' = files /\ dirs' = dirs]_vars

\* a debug-build LogCat call printed although the installed backend admits
\* no record of that level
C8_Witness ==
    /\ debug_assertions /\ last.op = "LogCat" /\ Len(stdout) = 1
    /\ logger # NoLogger /\ logger[1].root = Error /\ last.level = Trace

\* the records appended to a destination by a step
Added(before, after) == SubSeq(after, Len(before) + 1, Len(after))

\* C9: in a release build a LogCat call writes nothing but records with the
\* text "tag - message" at the call's level, at most one per destination; a
\* call made while no logger is installed writes nothing anywhere and returns
\* normally; and initialize() writes no record: a file it opens is empty and
\* every other destination is as before.
C9_ReleaseModeDelegates ==
    [][/\ (LogCatStep /\ ~debug_assertions) =>
             /\ stdout' = stdout /\ logger' = logger
             /\ last'.ret = "()"
             /\ Len(stderr') <= Len(stderr) + 1
             /\ DOMAIN files' = DOMAIN files
             /\ \A r \in Range(Added(stderr, stderr')) \cup
                         UNION {Range(Added(files[q], files'[q])) :
                                  q \in DOMAIN files} :
                  /\ r.message = <<last'.tag, " - ">> \o last'.args
                  /\ r.level = last'.level
             /\ \A q \in DOMAIN files : Len(files'[q]) <= Len(files[q]) + 1
             /\ (logger = NoLogger => stderr' = stderr /\ files' = files)
       /\ InitStep =>
             /\ stderr' = stderr /\ stdout' = stdout
             /\ \A q \in DOMAIN files' :
                  \/ files'[q] = <<>>
                  \/ q \in DOMAIN files /\ files'[q] = files[q]]_vars

\* a call was dropped before initialize(), initialize() succeeded, and the next
\* call was written with the text "tag - message"
C9_Witness ==
    /\ ~debug_assertions /\ calls = 3 /\ rets = <<"Ok">>
    /\ last.op = "LogCat"
    /\ Len(stderr) = 1
    /\ stderr[1].message = <<"APP", " - ", "disk full">>

\* C10: a debug-build macro call with an empty argument list prints exactly
\* one blank line (no color code, label or tag), writes nothing else and
\* returns normally, for each of the five macros.
C10_EmptyMacroPrintsBlankLine ==
    [][(MacroStep /\ debug_assertions /\ last'.args = <<>>) =>
          /\ stdout' = Append(stdout, <<>>)
          /\ stderr' = stderr /\ files' = files
          /\ logger' = logger /\ max_level' = max_level
          /\ last'.ret = "()"]_vars

\* trace!() printed one blank line in a debug build
C10_Witness ==
    /\ debug_assertions /\ last.op = "macro" /\ last.args = <<>>
    /\ last.level = Trace /\ stdout = << <<>> >>

\* the severity order of the specification: Trace < Debug < Info < Warn < Error
Sev(level) ==
    CASE level = Trace -> 1
      [] level = Debug -> 2
      [] level = Info -> 3
      [] level = Warn -> 4
      [] level = Error -> 5

\* the step wrote a record to the appender's destination
Wrote(a) ==
    IF a.kind = "console" THEN Len(stderr') = Len(stderr) + 1
    ELSE Len(files'[a.path]) = Len(files[a.path]) + 1

\* a release-build LogCat call on an installed logger whose root threshold and
\* global maximum level admit every record
FilteredLogStep ==
    /\ LogCatStep /\ ~debug_assertions
    /\ logger # NoLogger /\ logger[1].root = Trace /\ max_level = Trace

\* C5 as stated: for all severities L1 <= L2, a record at L1 is suppressed by
\* an appender threshold set to L2, and a record at L2 is admitted by it.
C5_SuppressedAtOrBelowThreshold ==
    [][FilteredLogStep =>
          \A a \in Range(logger[1].appenders) :
             a.threshold \in Levels =>
                /\ Sev(last'.level) <= Sev(a.threshold) => ~Wrote(a)
                /\ last'.level = a.threshold => Wrote(a)]_vars

\* C5 as amended: for all severities L1 < L2, a record at L1 is suppressed by
\* an appender threshold set to L2 and a record at L2 is admitted by it; an
\* appender writes a record iff level >= threshold in the severity order.
C5_AdmitsIffAtLeastThreshold ==
    [][FilteredLogStep =>
          \A a \in Range(logger[1].appenders) :
             a.threshold \in Levels =>
                /\ Sev(last'.level) < Sev(a.threshold) => ~Wrote(a)
                /\ last'.level = a.threshold => Wrote(a)
                /\ Wrote(a) <=> Sev(last'.level) >= Sev(a.threshold)]_vars

\* a record at exactly the console threshold was written to the console
C5_Witness ==
    /\ ~debug_assertions /\ last.op = "LogCat" /\ logger # NoLogger
    /\ logger[1].root = Trace /\ max_level = Trace
    /\ AppenderNamed(logger[1], "console").threshold = Info
    /\ last.level = Info /\ Len(stderr) = 1

\* the builder field a setter writes
FieldOf(op) ==
    CASE op = "set_root_level" -> "root_level"
      [] op = "set_console_level" -> "console_level"
      [] op = "set_file_level" -> "file_level"
      [] op = "set_filename" -> "filename"
      [] op = "set_filepath" -> "filepath"
      [] op = "set_pattern" -> "pattern"

SetterOps ==
    {"set_root_level", "set_console_level", "set_file_level", "set_filename",
     "set_filepath", "set_pattern"}

SetterStep == calls' = calls + 1 /\ last'.op \in SetterOps

----------------------------------------------------------------------------
\* The enum specification: conversions on an enum generated by enum_extend!.

logVars ==
    <<buildVars, cfg, logger, max_level, dirs, files, now, stderr, stdout,
      calls, last, rets, threadVars>>

\* the logging facade is not used
InitIdle ==
    /\ debug_assertions = FALSE
    /\ log_lineno = FALSE
    /\ cfg = Default
    /\ logger = NoLogger
    /\ max_level = Off
    /\ dirs = {}
    /\ files = <<>>
    /\ now = 0
    /\ stderr = <<>>
    /\ stdout = <<>>
    /\ calls = 0
    /\ last = NoCall
    /\ rets = <<>>
    /\ pc = [t \in Threads |-> "idle"]
    /\ self = [t \in Threads |-> Default]
    /\ local = [t \in Threads |-> NoLocal]
    /\ ret = [t \in Threads |-> "none"]

InitEnum ==
    /\ InitIdle
    /\ \E e \in Declarations : conv = [NoConv EXCEPT !.enum = e]
    /\ scope = NoScope

\* let value: $value_type = variant.into()
EnumInto(v) ==
    /\ conv' = [conv EXCEPT !.op = "into", !.variant = v,
                            !.value = into(conv.enum, v), !.out = NoResult]
    /\ UNCHANGED <<logVars, scope>>

\* <$name as TryFrom<$value_type>>::try_from(val)
EnumTryFrom(val) ==
    /\ conv' = [conv EXCEPT !.op = "try_from", !.variant = "", !.value = val,
                            !.out = try_from(conv.enum, val)]
    /\ UNCHANGED <<logVars, scope>>

\* try_from applied to the value the last into() returned
EnumTryFromInto ==
    /\ conv.op = "into"
    /\ conv' = [conv EXCEPT !.op = "try_from(into)",
                            !.out = try_from(conv.enum, conv.value)]
    /\ UNCHANGED <<logVars, scope>>

NextEnum ==
    \/ \E v \in {conv.enum.variants[i].variant : i \in DOMAIN conv.enum.variants} :
         EnumInto(v)
    \/ \E val \in 0..MaxValue : EnumTryFrom(val)
    \/ EnumTryFromInto

SpecEnum == InitEnum /\ [][NextEnum]_vars

\* the variants of the enum whose discriminant is val
VariantsAt(val) ==
    {conv.enum.variants[i].variant :
       i \in {j \in DOMAIN conv.enum.variants :
                conv.enum.variants[j].value = val}}

\* C11: for an enum generated by enum_extend! with distinct discriminants,
\* try_from(into(v)) is Ok(v) for every variant v; try_from of the value of a
\* variant is Ok of that variant; try_from of any other integer is Err of the
\* configured error constructor carrying that integer.
C11_TryFromInvertsInto ==
    /\ conv.op = "try_from(into)" =>
         /\ conv.out.ok
         /\ conv.out.variant = conv.variant
    /\ conv.op = "try_from" =>
         IF VariantsAt(conv.value) # {}
         THEN /\ conv.out.ok
              /\ VariantsAt(conv.value) = {conv.out.variant}
         ELSE /\ ~conv.out.ok
              /\ conv.out.err = "InvalidValue"
              /\ conv.out.value = conv.value

\* the repository's test: enum A { T1 = 1, T2 = 2 }, try_from(3) is
\* Err(InvalidValue(3))
C11_Witness ==
    /\ Len(conv.enum.variants) = 2
    /\ conv.enum.variants[1].value = 1 /\ conv.enum.variants[2].value = 2
    /\ conv.op = "try_from" /\ conv.value = 3
    /\ conv.out = [ok |-> FALSE, variant |-> "", err |-> "InvalidValue",
                   value |-> 3]

----------------------------------------------------------------------------
\* The scope specification: one with! or async_with! expression is evaluated,
\* given what its enter hook returns and how its body ends.

InitScope ==
    /\ InitIdle
    /\ conv = NoConv
    /\ \E macro \in {"with", "async_with"}, e \in EnterResults,
          b \in BodyOutcomes :
         scope = [NoScope EXCEPT !.macro = macro, !.enter = e, !.body = b,
                                 !.pc = "init"]

\* let mut $name = $init;
ScopeInit ==
    /\ scope.pc = "init"
    /\ scope' = [scope EXCEPT !.pc = "enter"]
    /\ UNCHANGED <<logVars, conv>>

\* match $name.__enter__() { Ok(()) => ..., Err(e) => Err(e) }
ScopeEnter ==
    /\ scope.pc = "enter"
    /\ scope' = IF scope.enter.ok
                THEN [scope EXCEPT !.events = Append(@, "enter"),
                                   !.pc = "body"]
                ELSE [scope EXCEPT !.events = Append(@, "enter"),
                                   !.result = Some(scope.enter),
                                   !.pc = "done"]
    /\ UNCHANGED <<logVars, conv>>

\* let result = $body;  in async_with!: let result = (async { $body }).await;
\* a `?` in the body of with! returns from the enclosing function; inside the
\* async block of async_with! it ends the block with that Err
ScopeBody ==
    /\ scope.pc = "body"
    /\ scope' = IF scope.body.kind = "question" /\ scope.macro = "with"
                THEN [scope EXCEPT !.events = Append(@, "body"),
                                   !.pc = "returned"]
                ELSE [scope EXCEPT !.events = Append(@, "body"),
                                   !.result = Some(scope.body.result),
                                   !.pc = "exit"]
    /\ UNCHANGED <<logVars, conv>>

\* $name.__exit__(); result
ScopeExit ==
    /\ scope.pc = "exit"
    /\ scope' = [scope EXCEPT !.events = Append(@, "exit"), !.pc = "done"]
    /\ UNCHANGED <<logVars, conv>>

NextScope == ScopeInit \/ ScopeEnter \/ ScopeBody \/ ScopeExit

SpecScope == InitScope /\ [][NextScope]_vars

\* control has left the with! / async_with! expression
ScopeOver == scope.pc \in {"done", "returned"}

\* C12: the enter hook is called exactly once and first; if it returns Err the
\* body is not run, the exit hook is not called and that Err is the result; if
\* it returns Ok the body runs exactly once, then the exit hook is called
\* exactly once, and the body's result is the result of the expression.
C12_EnterBodyExit ==
    /\ scope.events # <<>> => scope.events[1] = "enter"
    /\ Cardinality({i \in DOMAIN scope.events : scope.events[i] = "enter"}) <= 1
    /\ ScopeOver =>
         IF scope.enter.ok
         THEN /\ scope.events = <<"enter", "body", "exit">>
              /\ scope.result = <<scope.body.result>>
         ELSE /\ scope.events = <<"enter">>
              /\ scope.result = <<scope.enter>>

\* C13: in a release build with a backend installed, a record at level L is
\* written to an appender if and only if L passes both the root threshold and
\* that appender's own threshold.
C13_WrittenIffRootAndAppenderAdmit ==
    [][(LogCatStep /\ ~debug_assertions /\ logger # NoLogger) =>
          \A a \in Range(logger[1].appenders) :
             Wrote(a) <=> /\ last'.level <= logger[1].root
                          /\ last'.level <= a.threshold]_vars

\* C14: an initialize() call that is rejected because a backend is already
\* installed performs no file system mutation: it creates no directory and
\* neither creates nor truncates any log file.
C14_RejectedInitializeLeavesFiles ==
    [][(InitStep /\ rets'[Len(rets')] = "Err(SetLoggerError)") =>
          /\ dirs' = dirs
          /\ DOMAIN files' = DOMAIN files
          /\ \A q \in DOMAIN files : files'[q] = files[q]]_vars

====
